---- MODULE Spec2Model ----
(***************************************************************************)
(* A state-machine model of the Typing Racer game: the Car progress        *)
(* tracker (src/src/car.py), the round controller and typing matcher       *)
(* (src/src/game.py), the word source (src/src/words.py) and the           *)
(* leaderboard store (src/src/leaderboard.py).                             *)
(*                                                                         *)
(* Progress is a Python float in the source.  The model keeps it as an     *)
(* exact integer count of units of 1/One, where One is chosen so that      *)
(* every increment the game computes (k/L * 0.02 for word lengths L up to   *)
(* 9, and the 0.05 boost) is a whole number of units.                      *)
(***************************************************************************)
EXTENDS Integers, Sequences, FiniteSets, Bags, TLC

VARIABLES
    \* ---- Car (src/src/car.py)
    position,        \* Car.position, in units of 1/One
    boost_timer,     \* Car.boost_timer, milliseconds
    penalty_timer,   \* Car.penalty_timer, milliseconds
    \* ---- TypingRacerGame (src/src/game.py)
    state,           \* GameState
    running,         \* main loop flag
    pc,              \* "loop" while run() iterates, "done" after it left the loop
    current_word,    \* sequence of characters
    typed_text,      \* sequence of characters
    wpm,             \* <<numerator, denominator>>
    accuracy,        \* <<numerator, denominator>>
    score,
    combo,
    start_time,
    game_time_limit,
    chars_typed,
    chars_correct,
    words_completed,
    difficulty,
    max_word_length, \* WordManager.max_word_length
    \* ---- LeaderboardManager (src/src/leaderboard.py)
    scores,          \* LeaderboardManager.scores
    lbfile,          \* content of data/leaderboard.json
    \* ---- environment
    now,             \* time.time(), seconds
    budget,          \* what the environment has done so far (bounds the model only)
    \* ---- observation of the last operation (not program state)
    last,            \* the last call of the driver of a Car or of a store
    \* ---- the last call of a store method, as its caller sees it
    returned,        \* the value it returned
    raised,          \* the exception it let out, "none" when it returned
    \* ---- SettingsManager (src/src/settings.py)
    current_settings, \* SettingsManager.current_settings
    default_settings, \* SettingsManager.default_settings
    aliased,          \* the categories whose dict object both trees hold
    was_set,          \* <<category, key, value>> of the set calls since the tree
                      \* was last replaced (observation, not program state)
    settings_file     \* content of data/settings.json

carVars  == <<position, boost_timer, penalty_timer>>
gameVars == <<state, running, pc, current_word, typed_text, wpm, accuracy, score,
              combo, start_time, game_time_limit, chars_typed, chars_correct,
              words_completed, difficulty, max_word_length>>
lbVars   == <<scores, lbfile>>
callVars == <<returned, raised>>
setVars  == <<current_settings, default_settings, aliased, was_set, settings_file>>
restVars == <<callVars, setVars>>
vars     == <<carVars, gameVars, lbVars, restVars, now, budget, last>>

----------------------------------------------------------------------------
(* Fixed-point representation of progress                                  *)

\* least common multiple of the word lengths 1..9
LenLcm == 5 * 7 * 8 * 9
\* 1.0 of progress: 0.02 is LenLcm units, so k/L * 0.02 is a whole number
One == 50 * LenLcm
\* 0.02: the per-character factor of handle_game_input
CharFactor == One \div 50
\* 0.05: the boost of apply_boost
BoostAmount == One \div 20

Min(a, b) == IF a <= b THEN a ELSE b
Max(a, b) == IF a >= b THEN a ELSE b

----------------------------------------------------------------------------
(* Car                                                                     *)

\* Car.__init__ / Car.reset: the three fields the model keeps
CarReset == [position |-> 0, boost_timer |-> 0, penalty_timer |-> 0]

\* min(1.0, self.position + progress_increment) without the clamp
MoveNoClamp(pos, inc) == pos + inc

\* Car.move_by_progress: the new position
MoveByProgress(pos, inc) == Min(One, pos + inc)

\* has_finished as a strict comparison
HasFinishedStrict(pos) == pos > One

\* Car.has_finished
HasFinished(pos) == pos >= One

\* Car.apply_boost: new <<position, boost_timer>>
ApplyBoost(pos) == [position |-> MoveByProgress(pos, BoostAmount), boost_timer |-> 1000]

\* Car.apply_penalty: the new penalty_timer
ApplyPenalty == 500

\* one timer of Car.update: if t > 0 then max(0, t - dt)
DecayTimer(t, dt) == IF t > 0 THEN Max(0, t - dt) ELSE t

----------------------------------------------------------------------------
(* Leaderboard store                                                       *)

\* LeaderboardManager.max_entries
max_entries == 100

\* a float held as a reduced fraction <<numerator, denominator>>
RECURSIVE Gcd(_, _)
Gcd(a, b) == IF b = 0 THEN a ELSE Gcd(b, a % b)
Frac(n, d) == LET g == Gcd(n, d) IN IF g = 0 THEN <<0, 1>> ELSE <<n \div g, d \div g>>

\* a value a store method hands back: a Python scalar by its repr
Leaf(s) == [leaf |-> s]
PyNone == Leaf("None")
PyBool(b) == IF b THEN Leaf("True") ELSE Leaf("False")

\* an element of a JSON array that is no object: "number", "null", "string",
\* "array"; a score dict is a record of its keys and has no key json
NonRecord(kind) == [json |-> kind]
IsRecord(d) == "json" \notin DOMAIN d

\* the fields _validate_scores requires, with the legacy spelling of wpm
RequiredLegacy == {"name", "score", "wmp", "accuracy"}
RequiredFields == {"name", "score", "wpm", "accuracy"}

\* dict.pop('wmp') followed by score['wpm'] = ...
RenameWmp(d) ==
    [k \in (DOMAIN d \ {"wmp"}) \cup {"wpm"} |-> IF k = "wpm" THEN d["wmp"] ELSE d[k]]

\* a loop body that knows the field wpm only
ValidateOneStrict(d, t) ==
    LET opt == [k \in {"difficulty", "timestamp"} \ DOMAIN d |->
                   IF k = "difficulty" THEN "normal" ELSE t]
    IN IF RequiredFields \subseteq DOMAIN d THEN <<d @@ opt>> ELSE <<>>

\* one iteration of the loop of _validate_scores on a dict d: <<>> when the
\* entry is skipped, <<record>> when it is kept
ValidateOne(d, t) ==
    LET d1  == IF "wmp" \in DOMAIN d /\ "wpm" \notin DOMAIN d THEN RenameWmp(d) ELSE d
        req == IF "wpm" \in DOMAIN d1 /\ "wmp" \notin DOMAIN d1
               THEN RequiredFields ELSE RequiredLegacy
        opt == [k \in {"difficulty", "timestamp"} \ DOMAIN d1 |->
                   IF k = "difficulty" THEN "normal" ELSE t]
    IN IF req \subseteq DOMAIN d1 THEN <<d1 @@ opt>> ELSE <<>>

\* the exception the loop body of _validate_scores lets out on element d:
\* 'wmp' in score, outside the try block, is a TypeError on a number or null;
\* a string or an array answers the membership tests and is skipped
ValidateOneRaises(d) ==
    IF ~IsRecord(d) /\ d.json \in {"number", "null"} THEN "TypeError" ELSE "none"

\* what one iteration of the loop leaves of the dict d inside the list it was
\* read from: the rename and the defaults are made in place
ValidateInPlace(d, t) ==
    LET d1 == IF "wmp" \in DOMAIN d /\ "wpm" \notin DOMAIN d THEN RenameWmp(d) ELSE d
    IN IF ValidateOne(d, t) # <<>> THEN ValidateOne(d, t)[1] ELSE d1

\* the indices 1..Len(s) of a sequence, as a sequence
Indices(s) == [i \in 1..Len(s) |-> i]

\* LeaderboardManager._validate_scores at time t: the kept entries, in order
ValidateScores(items, t) ==
    LET v    == [i \in 1..Len(items) |-> ValidateOne(items[i], t)]
        kept == SelectSeq(Indices(items), LAMBDA i : v[i] # <<>>)
    IN [k \in 1..Len(kept) |-> v[kept[k]][1]]

\* the exception _validate_scores lets out on a list
ValidateRaises(items) ==
    IF \E i \in 1..Len(items) : ValidateOneRaises(items[i]) # "none"
    THEN "TypeError" ELSE "none"

\* the list object handed to _validate_scores when the loop has raised: the
\* elements before the offending one as the loop left them, the others as read
ValidateAborted(items, t) ==
    LET bad == CHOOSE i \in 1..Len(items) :
                 /\ ValidateOneRaises(items[i]) # "none"
                 /\ \A j \in 1..(i - 1) : ValidateOneRaises(items[j]) = "none"
    IN [i \in 1..Len(items) |->
           IF i < bad THEN ValidateInPlace(items[i], t) ELSE items[i]]

\* the score values of a list
ScoreValues(s) == {s[i].score : i \in 1..Len(s)}
SetMax(S) == CHOOSE m \in S : \A x \in S : x <= m
SetMin(S) == CHOOSE m \in S : \A x \in S : m <= x

\* the records of the score values V in ascending order of score
RECURSIVE SortAscFrom(_, _)
SortAscFrom(s, V) ==
    IF V = {} THEN <<>>
    ELSE SelectSeq(s, LAMBDA r : r.score = SetMin(V)) \o SortAscFrom(s, V \ {SetMin(V)})

\* list.sort(key=score, reverse=True) with the comparison turned around
SortAsc(s) == SortAscFrom(s, ScoreValues(s))

\* the records of the score values V: the highest score first, and the records
\* of one score in the order they have in s
RECURSIVE SortDescFrom(_, _)
SortDescFrom(s, V) ==
    IF V = {} THEN <<>>
    ELSE SelectSeq(s, LAMBDA r : r.score = SetMax(V)) \o SortDescFrom(s, V \ {SetMax(V)})

\* list.sort(key=lambda x: x['score'], reverse=True): a stable sort, so a record
\* comes after the records of a higher score and after the earlier records of
\* its own score
SortDesc(s) == SortDescFrom(s, ScoreValues(s))

\* self.scores[:self.max_entries]
Trim(s) == SubSeq(s, 1, Min(Len(s), max_entries))

\* the deduplication key of import_scores
DedupKey(r) == <<r.name, r.score, r.wpm, r.timestamp>>

\* a name that is a JSON array, written as a token: a Python list, which has
\* no hash and no lower()
ListName == "[x]"

\* the exception the seen-set loop of import_scores lets out on the list s:
\* a key holding a list is a TypeError at `key not in seen`
DedupRaises(s) ==
    IF \E i \in 1..Len(s) : s[i].name = ListName THEN "TypeError" ELSE "none"

\* a loop that compares a record with its predecessor only
DedupAdjacent(s) ==
    LET kept == SelectSeq(Indices(s),
                    LAMBDA i : i = 1 \/ DedupKey(s[i - 1]) # DedupKey(s[i]))
    IN [k \in 1..Len(kept) |-> s[kept[k]]]

\* the seen-set loop of import_scores: a record is kept when no earlier record
\* of the list has its key
Dedup(s) ==
    LET kept == SelectSeq(Indices(s),
                    LAMBDA i : \A j \in 1..(i - 1) : DedupKey(s[j]) # DedupKey(s[i]))
    IN [k \in 1..Len(kept) |-> s[kept[k]]]

\* name.strip()[:20] with the "Anonymous" default; names are short and
\* unpadded in the model, so only the default can apply
CleanName(name) == IF name = "" THEN "Anonymous" ELSE name

\* the score_entry dict of add_score
ScoreEntry(name, sc, w, acc, diff, t) ==
    [name |-> CleanName(name), score |-> sc, wpm |-> w, accuracy |-> acc,
     difficulty |-> diff, timestamp |-> t]

\* the in-memory list of add_score after append, sort and trim
AddScoreList(s, entry) == Trim(SortDesc(Append(s, entry)))

\* get_scores(limit): scores[:limit] (no limit when limit is 0)
GetScores(s, limit) == IF limit = 0 THEN s ELSE SubSeq(s, 1, Min(Len(s), limit))

\* add_score: score_entry in top_scores, where top_scores is get_scores(limit=10)
\* of the list after the insertion; list membership compares dicts with ==
AddScoreReturn(s, entry) ==
    LET top == GetScores(AddScoreList(s, entry), 10)
    IN \E i \in 1..Len(top) : top[i] = entry

\* the file save_scores writes: the versioned object form
SavedFile(s) == [t |-> "object", items |-> s]

\* the files save_scores can leave behind: the new content, or on an IOError
\* the old file or a truncated one
SaveOutcomes(s, old) == {SavedFile(s), old, [t |-> "invalid", items |-> <<>>]}

\* save_scores with the IOError let through
SaveRaisedUncaught(s, f) == IF f = SavedFile(s) THEN "none" ELSE "IOError"

\* save_scores: the exception it lets out after leaving the file f behind; an
\* IOError is caught and printed
SaveRaised(s, f) == "none"

\* load_scores on a file f: the exception it lets out. json.JSONDecodeError and
\* IOError are caught; a file is "absent", "invalid" (no JSON), an "array", an
\* "object" with the key scores, an "object_other" without it, or a "scalar"
LoadScoresRaised(f) ==
    IF f.t \in {"array", "object"} THEN ValidateRaises(f.items) ELSE "none"

\* the list load_scores leaves in self.scores from a file f read at time t;
\* self.scores is bound to the list read before it is validated
LoadScoresList(f, t) ==
    IF f.t \in {"array", "object"}
    THEN IF ValidateRaises(f.items) = "none"
         THEN ValidateScores(f.items, t) ELSE ValidateAborted(f.items, t)
    ELSE <<>>

----------------------------------------------------------------------------
(* Settings store                                                          *)

\* a settings value is a scalar Leaf(repr) or a mapping DictOf(f), f a function
\* from keys to settings values; a tree is the function of its top-level dict
DictOf(f) == [dict |-> f]
IsDict(v) == "dict" \in DOMAIN v
EmptyTree == [k \in {} |-> Leaf("")]

\* SettingsManager.default_settings as __init__ builds it: two of its
\* categories, with keys of the program's convenience methods
CanonicalDefaults ==
    [c \in {"audio", "gameplay"} |->
        IF c = "audio"
        THEN DictOf([k \in {"master_volume", "mute"} |->
                        IF k = "mute" THEN Leaf("False") ELSE Leaf("0.7")])
        ELSE DictOf([k \in {"difficulty"} |-> Leaf("normal")])]

\* _merge_settings with the two trees taken the other way round: a value of
\* the defaults wins over the loaded one
RECURSIVE MergeDefaultsWin(_, _)
MergeDefaultsWin(defaults, loaded) ==
    [k \in DOMAIN defaults \cup DOMAIN loaded |->
        IF k \notin DOMAIN defaults THEN loaded[k]
        ELSE IF k \in DOMAIN loaded /\ IsDict(loaded[k]) /\ IsDict(defaults[k])
             THEN DictOf(MergeDefaultsWin(defaults[k].dict, loaded[k].dict))
             ELSE defaults[k]]

\* SettingsManager._merge_settings on two mappings
RECURSIVE MergeSettings(_, _)
MergeSettings(defaults, loaded) ==
    [k \in DOMAIN defaults \cup DOMAIN loaded |->
        IF k \notin DOMAIN loaded THEN defaults[k]
        ELSE IF k \in DOMAIN defaults /\ IsDict(loaded[k]) /\ IsDict(defaults[k])
             THEN DictOf(MergeSettings(defaults[k].dict, loaded[k].dict))
             ELSE loaded[k]]

\* the categories of a merged tree whose dict is the very object the defaults
\* hold: result = defaults.copy() is shallow, and only a key of loaded gets a
\* new value
MergeAliased(defaults, loaded) ==
    {k \in DOMAIN defaults \ DOMAIN loaded : IsDict(defaults[k])}

\* a settings file: "absent", "invalid" (no JSON), an "object" with its tree,
\* or "other" (a JSON array or scalar)
SettingsDoc(t, tree) == [t |-> t, tree |-> tree]

\* the file save_settings writes; json.dump and json.load give back the
\* strings, numbers, booleans and mappings of a tree as they were
SavedSettings(tree) == SettingsDoc("object", tree)

\* the files save_settings can leave behind: the new content, or on an IOError
\* (caught and printed) the old file or a truncated one
SaveSettingsOutcomes(tree, old) ==
    {SavedSettings(tree), old, SettingsDoc("invalid", EmptyTree)}

\* load_settings on a file f: the exception it lets out. JSONDecodeError and
\* IOError are caught; loaded.items() on a list or a scalar is an AttributeError
LoadSettingsRaised(f) == IF f.t = "other" THEN "AttributeError" ELSE "none"

\* the tree load_settings leaves in current_settings
LoadSettingsTree(f, defaults, current) ==
    CASE f.t = "object" -> MergeSettings(defaults, f.tree)
      [] f.t = "other"  -> current
      [] OTHER          -> defaults

\* SettingsManager.get(category, key, default): the exception it lets out;
\* KeyError and TypeError are caught, and .get on a value that is no dict is
\* an AttributeError
GetRaised(tree, category) ==
    IF category \in DOMAIN tree /\ ~IsDict(tree[category]) THEN "AttributeError" ELSE "none"

\* SettingsManager.get(category, key, default): the value it returns
GetValue(tree, category, key, default) ==
    IF category \in DOMAIN tree /\ IsDict(tree[category])
          /\ key \in DOMAIN tree[category].dict
    THEN tree[category].dict[key] ELSE default

\* SettingsManager.set(category, key, value): the exception it lets out; item
\* assignment on a value that is no dict is a TypeError
SetRaised(tree, category) ==
    IF category \in DOMAIN tree /\ ~IsDict(tree[category]) THEN "TypeError" ELSE "none"

\* a mapping with key k bound to v
Bind(f, k, v) == [x \in DOMAIN f \cup {k} |-> IF x = k THEN v ELSE f[x]]

\* SettingsManager.set(category, key, value) on a tree
SetValue(tree, category, key, value) ==
    LET old == IF category \in DOMAIN tree THEN tree[category].dict ELSE EmptyTree
    IN Bind(tree, category, DictOf(Bind(old, key, value)))

----------------------------------------------------------------------------
(* Word source                                                             *)

\* WordManager.easy_words, normal_words, hard_words: a sample of each static
\* list that keeps a word on either side of every length limit the presets use,
\* and a word of the shortest length there is (two letters, easy tier)
easy_words   == << <<"u","p">>, <<"c","a","t">> >>
normal_words == << <<"h","o","u","s","e">>, <<"c","h","a","l","l","e","n","g","e">> >>
hard_words   == << <<"a","l","g","o","r","i","t","h","m">> >>

\* WordManager.get_word_list
GetWordList(maxlen) ==
    IF maxlen <= 4 THEN easy_words
    ELSE IF maxlen <= 7 THEN easy_words \o normal_words
    ELSE easy_words \o normal_words \o hard_words

\* get_next_word without the filter by length
ValidWordsUnfiltered(maxlen) ==
    LET wl == GetWordList(maxlen) IN {wl[i] : i \in 1..Len(wl)}

\* WordManager.get_next_word: the words random.choice can return
ValidWords(maxlen) ==
    LET wl    == GetWordList(maxlen)
        valid == {wl[i] : i \in {j \in 1..Len(wl) : Len(wl[j]) <= maxlen}}
    IN IF valid = {} THEN {easy_words[i] : i \in 1..Len(easy_words)} ELSE valid

----------------------------------------------------------------------------
(* Key events                                                              *)

\* str.lower() on the characters of the model
Lower(u) == IF u = "C" THEN "c" ELSE IF u = "H" THEN "h" ELSE u

\* the control characters of the model's events, written as tokens
ControlChars == {"<TAB>", "<BS>", "<CR>", "<ESC>"}

\* str.isprintable(): true of the empty string, false of control characters
IsPrintable(u) == u \notin ControlChars

\* the letter keys the model presses
LetterKeys == {"c", "a", "t", "h", "o", "u", "s", "e", "x", "p", "q", "l"}

\* the pygame KEYDOWN events the model feeds: [key, unicode]; a letter key
\* carries the key's own name as event.key
KeyEvents ==
    {[key |-> c, unicode |-> c] : c \in LetterKeys}
    \cup {[key |-> "c", unicode |-> "C"], [key |-> "h", unicode |-> "H"],
          [key |-> "1", unicode |-> "1"],
          [key |-> "K_SPACE", unicode |-> " "], [key |-> "K_TAB", unicode |-> "<TAB>"],
          [key |-> "K_LSHIFT", unicode |-> ""], [key |-> "K_BACKSPACE", unicode |-> "<BS>"],
          [key |-> "K_RETURN", unicode |-> "<CR>"], [key |-> "K_ESCAPE", unicode |-> "<ESC>"]}

----------------------------------------------------------------------------
(* Bounds of the model                                                     *)

\* mistyped characters per round
MaxErrors == 1
\* backspaces per round
MaxBackspaces == 1
\* backspaces per round of a player who also visits the other screens
ScreenBackspaces == 0
\* rounds started
MaxRounds == 1
\* leaderboard calls of the store's own driver
MaxOps == 2
\* the clock advances in steps of TickStep seconds up to MaxNow
TickStep == 60
MaxNow == 60

----------------------------------------------------------------------------
(* Round controller                                                        *)

GameStates == {"MENU", "PLAYING", "PAUSED", "GAME_OVER", "SETTINGS", "LEADERBOARD", "TUTORIAL"}
Difficulties == {"easy", "normal", "hard", "endless"}

\* start_game: the time limit of each difficulty
TimeLimit(d) ==
    CASE d = "easy" -> 45 [] d = "normal" -> 60 [] d = "hard" -> 75 [] d = "endless" -> 999999

\* start_game: the max_length handed to set_difficulty
MaxLength(d) ==
    CASE d = "easy" -> 4 [] d = "normal" -> 6 [] d = "hard" -> 8 [] d = "endless" -> 6

\* handle_game_input: the character expected next ('' when the word is typed out)
TargetChar(word, typed) == IF Len(typed) < Len(word) THEN word[Len(typed) + 1] ELSE ""

\* handle_game_input: typed_text += char
AppendChar(typed, char) == IF char = "" THEN typed ELSE Append(typed, char)

\* handle_game_input: (len(typed_text) / len(current_word)) * 0.02
CharIncrement(typedLen, wordLen) == (typedLen * CharFactor) \div wordLen

\* a combo bonus taken from the combo before its increment
ComboBonusStale(c) == Min((c - 1) * 5, 100)

\* complete_word: min(self.combo * 5, 100)
ComboBonus(c) == Min(c * 5, 100)

\* complete_word: total_bonus for a word of length len at the incremented combo c
WordScore(len, c) == len * 10 + ComboBonus(c)

\* update: the time-out test
TimedOut(limit, elapsed, d) == Max(0, limit - elapsed) <= 0 /\ d # "endless"

\* the part of the game state a keystroke in a round never touches
roundFixed == <<running, pc, wpm, accuracy, start_time, game_time_limit, difficulty,
                max_word_length, scores, lbfile, restVars, now>>

\* TypingRacerGame.start_game(d): reset_game_stats, the difficulty parameters,
\* the start time and the first word
StartGame(d) ==
    /\ difficulty' = d
    /\ state' = "PLAYING"
    /\ wpm' = <<0, 1>>
    /\ accuracy' = <<100, 1>>
    /\ score' = 0
    /\ combo' = 0
    /\ chars_typed' = 0
    /\ chars_correct' = 0
    /\ words_completed' = 0
    /\ position' = CarReset.position
    /\ boost_timer' = CarReset.boost_timer
    /\ penalty_timer' = CarReset.penalty_timer
    /\ game_time_limit' = TimeLimit(d)
    /\ max_word_length' = MaxLength(d)
    /\ start_time' = now
    /\ current_word' \in ValidWords(MaxLength(d))
    /\ typed_text' = <<>>
    /\ budget' = [budget EXCEPT !.rounds = @ + 1, !.bksp = 0]
    /\ UNCHANGED <<running, pc, lbVars, restVars, now, last>>

\* a backspace that also takes the deleted character back out of the counters
BackspaceUncounts ==
    /\ typed_text' = IF typed_text # <<>>
                     THEN SubSeq(typed_text, 1, Len(typed_text) - 1) ELSE typed_text
    /\ chars_typed' = IF typed_text # <<>> THEN chars_typed - 1 ELSE chars_typed
    /\ chars_correct' = IF typed_text # <<>> THEN chars_correct - 1 ELSE chars_correct
    /\ budget' = [budget EXCEPT !.bksp = @ + 1]
    /\ UNCHANGED <<carVars, state, current_word, score, combo, words_completed,
                   roundFixed, last>>

\* a backspace that takes back the credit of the character it deletes
BackspaceRefunds ==
    /\ typed_text' = IF typed_text # <<>>
                     THEN SubSeq(typed_text, 1, Len(typed_text) - 1) ELSE typed_text
    /\ chars_correct' = IF typed_text # <<>> THEN chars_correct - 1 ELSE chars_correct
    /\ position' = IF typed_text # <<>>
                   THEN Max(0, position - CharIncrement(Len(typed_text), Len(current_word)))
                   ELSE position
    /\ budget' = [budget EXCEPT !.bksp = @ + 1]
    /\ UNCHANGED <<boost_timer, penalty_timer, state, current_word, score, combo,
                   chars_typed, words_completed, roundFixed, last>>

\* handle_game_input, the K_BACKSPACE branch
Backspace ==
    /\ typed_text' = IF typed_text # <<>>
                     THEN SubSeq(typed_text, 1, Len(typed_text) - 1) ELSE typed_text
    /\ budget' = [budget EXCEPT !.bksp = @ + 1]
    /\ UNCHANGED <<carVars, state, current_word, score, combo, chars_typed,
                   chars_correct, words_completed, roundFixed, last>>

\* handle_game_input, the branch of a matching character, with complete_word,
\* win_game and spawn_new_word when the word is typed out
CorrectChar(char) ==
    LET typed1 == AppendChar(typed_text, char)
        wlen   == Len(current_word)
    IN IF wlen = 0
       THEN \* ZeroDivisionError leaves run()
            /\ pc' = "done"
            /\ chars_typed' = chars_typed + 1
            /\ chars_correct' = chars_correct + 1
            /\ typed_text' = typed1
            /\ UNCHANGED <<carVars, state, running, current_word, wpm, accuracy, score,
                           combo, start_time, game_time_limit, words_completed,
                           difficulty, max_word_length, lbVars, restVars, now, budget, last>>
       ELSE LET pos1   == MoveByProgress(position, CharIncrement(Len(typed1), wlen))
                combo1 == combo + 1
                boost  == ApplyBoost(pos1)
            IN /\ chars_typed' = chars_typed + 1
               /\ chars_correct' = chars_correct + 1
               /\ IF Len(typed1) = wlen
                  THEN /\ words_completed' = words_completed + 1
                       /\ combo' = combo1
                       /\ score' = score + WordScore(wlen, combo1)
                       /\ position' = boost.position
                       /\ boost_timer' = boost.boost_timer
                       /\ IF HasFinished(boost.position)
                          THEN /\ state' = "GAME_OVER"
                               /\ typed_text' = typed1
                               /\ current_word' = current_word
                          ELSE /\ state' = state
                               /\ typed_text' = <<>>
                               /\ current_word' \in ValidWords(max_word_length)
                  ELSE /\ position' = pos1
                       /\ typed_text' = typed1
                       /\ UNCHANGED <<words_completed, combo, score, boost_timer, state,
                                      current_word>>
               /\ budget' = IF Len(typed1) = wlen /\ HasFinished(boost.position)
                             THEN [budget EXCEPT !.ended = @ + 1] ELSE budget
               /\ UNCHANGED <<penalty_timer, roundFixed, last>>

\* handle_game_input, the branch of a character that does not match
Mismatch ==
    /\ chars_typed' = chars_typed + 1
    /\ penalty_timer' = ApplyPenalty
    /\ UNCHANGED <<position, boost_timer, state, current_word, typed_text, score, combo,
                   chars_correct, words_completed, roundFixed, budget, last>>

\* an event no branch of the handler acts on
Ignored == UNCHANGED vars

\* does handle_game_input take the character branch
IsCharEvent(e) == e.key # "K_BACKSPACE" /\ IsPrintable(e.unicode) /\ e.unicode # " "

\* a comparison with the first character of the word, whatever was typed so far
MatchesFirst(e) == Lower(e.unicode) = Lower(TargetChar(current_word, <<>>))

\* handle_game_input: char == target_char.lower()
Matches(e) == Lower(e.unicode) = Lower(TargetChar(current_word, typed_text))

\* TypingRacerGame.handle_game_input
HandleGameInput(e) ==
    IF e.key = "K_BACKSPACE" THEN Backspace
    ELSE IF IsPrintable(e.unicode) /\ e.unicode # " "
         THEN IF Matches(e) THEN CorrectChar(Lower(e.unicode)) ELSE Mismatch
         ELSE Ignored

\* the name ui.get_player_name_input returns
PlayerName == "Player"

\* handle_game_over_input adding nothing
GameOverEntryNone(s, sc, w, acc, t) == s

\* handle_game_over_input: the list after leaderboard.add_score(name, score, wpm,
\* accuracy), which leaves difficulty at its default 'normal'
GameOverEntry(s, sc, w, acc, t) ==
    IF PlayerName # ""
    THEN AddScoreList(s, ScoreEntry(PlayerName, sc, w, acc, "normal", t))
    ELSE s

\* TypingRacerGame.handle_game_over_input
HandleGameOverInput(e) ==
    IF e.key \in {"K_RETURN", "K_SPACE"}
    THEN /\ scores' = GameOverEntry(scores, score, wpm, accuracy, now)
         /\ lbfile' \in SaveOutcomes(scores', lbfile)
         /\ returned' = PyBool(AddScoreReturn(scores,
                            ScoreEntry(PlayerName, score, wpm, accuracy, "normal", now)))
         /\ raised' = SaveRaised(scores', lbfile')
         /\ state' = "MENU"
         /\ budget' = [budget EXCEPT !.added = @ + 1]
         /\ UNCHANGED <<carVars, setVars, running, pc, current_word, typed_text, wpm, accuracy,
                        score, combo, start_time, game_time_limit, chars_typed,
                        chars_correct, words_completed, difficulty, max_word_length, now,
                        last>>
    ELSE Ignored

\* a change of state that also clears what was typed of the word
GoToClears(st) ==
    /\ state' = st
    /\ typed_text' = <<>>
    /\ UNCHANGED <<carVars, running, pc, current_word, wpm, accuracy, score,
                   combo, start_time, game_time_limit, chars_typed, chars_correct,
                   words_completed, difficulty, max_word_length, lbVars, restVars, now, budget, last>>

\* a change of state alone
GoTo(st) ==
    /\ state' = st
    /\ UNCHANGED <<carVars, running, pc, current_word, typed_text, wpm, accuracy, score,
                   combo, start_time, game_time_limit, chars_typed, chars_correct,
                   words_completed, difficulty, max_word_length, lbVars, restVars, now, budget, last>>

\* TypingRacerGame.handle_menu_input: the key_map
HandleMenuInput(e) ==
    CASE e.key \in {"1", "p"} -> StartGame("normal")
      [] e.key = "s" -> GoTo("SETTINGS")
      [] e.key = "l" -> GoTo("LEADERBOARD")
      [] e.key = "t" -> GoTo("TUTORIAL")
      [] e.key = "q" -> /\ running' = FALSE
                        /\ UNCHANGED <<carVars, state, pc, current_word, typed_text, wpm,
                                       accuracy, score, combo, start_time, game_time_limit,
                                       chars_typed, chars_correct, words_completed,
                                       difficulty, max_word_length, lbVars, restVars, now, budget,
                                       last>>
      [] OTHER -> Ignored

\* TypingRacerGame.handle_pause_input
HandlePauseInput(e) ==
    IF e.key \in {"K_SPACE", "K_RETURN"} THEN GoTo("PLAYING") ELSE Ignored

\* TypingRacerGame.handle_leaderboard_input: clear_scores on K_c
HandleLeaderboardInput(e) ==
    IF e.key = "c"
    THEN /\ scores' = <<>>
         /\ lbfile' \in SaveOutcomes(<<>>, lbfile)
         /\ returned' = PyNone
         /\ raised' = SaveRaised(scores', lbfile')
         /\ UNCHANGED <<carVars, gameVars, setVars, now, budget, last>>
    ELSE Ignored

\* TypingRacerGame.handle_events, one KEYDOWN event
KeyDown(e) ==
    IF e.key = "K_ESCAPE"
    THEN IF state = "PLAYING" THEN GoTo("PAUSED")
         ELSE IF state \in {"PAUSED", "SETTINGS", "LEADERBOARD", "TUTORIAL"}
              THEN GoTo("MENU")
              ELSE Ignored
    ELSE CASE state = "MENU"        -> HandleMenuInput(e)
           [] state = "PLAYING"     -> HandleGameInput(e)
           [] state = "PAUSED"      -> HandlePauseInput(e)
           [] state = "GAME_OVER"   -> HandleGameOverInput(e)
           [] state = "LEADERBOARD" -> HandleLeaderboardInput(e)
           [] OTHER                 -> Ignored

\* the screens from which the model closes the window: closing it in the middle
\* of a round abandons the round
QuitStates == GameStates \ {"PLAYING", "PAUSED"}

\* the keys that leave a round or the menu for another screen
IsNavigation(e) ==
    \/ e.key = "K_ESCAPE"
    \/ state = "MENU" /\ e.key \in {"s", "l", "t", "q"}

\* which events the environment may still send: the bounds of the model
Allowed(e, nav, maxBksp) ==
    /\ IsNavigation(e) => nav
    /\ (state = "MENU" /\ e.key \in {"1", "p"}) => budget.rounds < MaxRounds
    /\ (state = "PLAYING" /\ e.key = "K_BACKSPACE") => budget.bksp < maxBksp
    /\ (state = "PLAYING" /\ IsCharEvent(e) /\ ~Matches(e))
           => chars_typed - chars_correct < MaxErrors

\* handle_events: a KEYDOWN event taken from the queue, for a player who stays
\* in the round
PlayKey ==
    /\ pc = "loop"
    /\ \E e \in KeyEvents : Allowed(e, FALSE, MaxBackspaces) /\ KeyDown(e)

\* handle_events: a KEYDOWN event taken from the queue, for a player who also
\* pauses and visits the other screens
HandleKey ==
    /\ pc = "loop"
    /\ \E e \in KeyEvents : Allowed(e, TRUE, ScreenBackspaces) /\ KeyDown(e)

\* handle_events: a QUIT event
HandleQuit ==
    /\ pc = "loop"
    /\ running
    /\ state \in QuitStates
    /\ running' = FALSE
    /\ UNCHANGED <<carVars, state, pc, current_word, typed_text, wpm, accuracy, score,
                   combo, start_time, game_time_limit, chars_typed, chars_correct,
                   words_completed, difficulty, max_word_length, lbVars, restVars, now, budget,
                   last>>

\* the frame times the model passes to update, milliseconds
FrameDts == {1000}

\* TypingRacerGame.update(dt), followed by the loop test of run()
Update ==
    /\ pc = "loop"
    /\ \E dt \in FrameDts :
         IF state = "PLAYING"
         THEN LET elapsed == now - start_time
                  lose    == TimedOut(game_time_limit, elapsed, difficulty)
                               /\ ~HasFinished(position)
              IN /\ state' = IF lose THEN "GAME_OVER" ELSE state
                 /\ combo' = IF lose THEN 0 ELSE combo
                 /\ wpm' = IF elapsed > 0 THEN Frac(12 * chars_correct, elapsed) ELSE wpm
                 /\ accuracy' = IF elapsed > 0 /\ chars_typed > 0
                                THEN Frac(100 * chars_correct, chars_typed) ELSE accuracy
                 /\ boost_timer' = DecayTimer(boost_timer, dt)
                 /\ penalty_timer' = DecayTimer(penalty_timer, dt)
                 /\ budget' = IF lose THEN [budget EXCEPT !.ended = @ + 1] ELSE budget
                 /\ UNCHANGED <<last, position, current_word, typed_text, score, start_time,
                                game_time_limit, chars_typed, chars_correct,
                                words_completed, difficulty, max_word_length>>
         ELSE UNCHANGED <<carVars, state, current_word, typed_text, wpm, accuracy,
                         score, combo, start_time, game_time_limit, chars_typed,
                         chars_correct, words_completed, difficulty, max_word_length,
                         budget, last>>
    /\ pc' = IF running THEN "loop" ELSE "done"
    /\ UNCHANGED <<running, lbVars, restVars, now>>

\* the wall clock advances
Tick ==
    /\ now + TickStep <= MaxNow
    /\ now' = now + TickStep
    /\ UNCHANGED <<carVars, gameVars, lbVars, restVars, budget, last>>

----------------------------------------------------------------------------
(* Car driven on its own                                                   *)

\* the increments a caller passes to move_by_progress: amounts in 0.0 .. 1.0
Increments ==
    {0, One, BoostAmount, CharIncrement(1, 5)} \cup {CharIncrement(k, 3) : k \in 1..3}

\* the frame times passed to Car.update, milliseconds
CarDts == {0, 250, 1000}

CarMove ==
    /\ \E inc \in Increments : position' = MoveByProgress(position, inc)
    /\ last' = "move"
    /\ UNCHANGED <<boost_timer, penalty_timer, gameVars, lbVars, restVars, now, budget>>

CarBoost ==
    /\ position' = ApplyBoost(position).position
    /\ boost_timer' = ApplyBoost(position).boost_timer
    /\ last' = "boost"
    /\ UNCHANGED <<penalty_timer, gameVars, lbVars, restVars, now, budget>>

\* a penalty that sets the car back by the amount of a boost
CarPenaltySlows ==
    /\ penalty_timer' = ApplyPenalty
    /\ position' = Max(0, position - BoostAmount)
    /\ last' = "penalty"
    /\ UNCHANGED <<boost_timer, gameVars, lbVars, restVars, now, budget>>

CarPenalty ==
    /\ penalty_timer' = ApplyPenalty
    /\ last' = "penalty"
    /\ UNCHANGED <<position, boost_timer, gameVars, lbVars, restVars, now, budget>>

CarUpdate ==
    /\ \E dt \in CarDts :
         /\ boost_timer' = DecayTimer(boost_timer, dt)
         /\ penalty_timer' = DecayTimer(penalty_timer, dt)
    /\ last' = "car_update"
    /\ UNCHANGED <<position, gameVars, lbVars, restVars, now, budget>>

CarResetCall ==
    /\ position' = CarReset.position
    /\ boost_timer' = CarReset.boost_timer
    /\ penalty_timer' = CarReset.penalty_timer
    /\ last' = "reset"
    /\ UNCHANGED <<gameVars, lbVars, restVars, now, budget>>

----------------------------------------------------------------------------
(* Leaderboard store driven on its own                                     *)

\* the length of the long score lists of the model
BulkLen == 99

\* score dicts as they appear in a file or an import string
ElemAnn    == [name |-> "ann", score |-> 3, wpm |-> <<40, 1>>, accuracy |-> <<95, 1>>,
               difficulty |-> "easy", timestamp |-> 5]
ElemLegacy == [name |-> "bob", score |-> 7, wmp |-> <<50, 1>>, accuracy |-> <<90, 1>>]
ElemNoAcc  == [name |-> "ann", score |-> 9, wpm |-> <<40, 1>>]
ElemBoth   == [name |-> "cy", score |-> 4, wpm |-> <<20, 1>>, wmp |-> <<21, 1>>,
               accuracy |-> <<70, 1>>]
ElemListName == [name |-> ListName, score |-> 9, wpm |-> <<1, 1>>, accuracy |-> <<1, 1>>,
                   timestamp |-> 1]
ElemNoName == [score |-> 6, wmp |-> <<50, 1>>, accuracy |-> <<90, 1>>]
Bulk(n)    == [i \in 1..n |-> [name |-> "bulk", score |-> i % 3, wpm |-> <<30, 1>>,
                               accuracy |-> <<80, 1>>, difficulty |-> "hard",
                               timestamp |-> i]]

\* nine records that score as high as the best record add_score is handed
TopNine    == [i \in 1..9 |-> [name |-> "zed", score |-> 8, wpm |-> <<60, 1>>,
                               accuracy |-> <<99, 1>>, difficulty |-> "normal",
                               timestamp |-> i]]

\* JSON documents: an unparsable text, a value that is no array, arrays
Doc(t, items) == [t |-> t, items |-> items]
ImportDocs ==
    {Doc("invalid", <<>>), Doc("object", <<ElemAnn>>),
     Doc("array", <<ElemAnn, ElemLegacy>>), Doc("array", <<ElemAnn, ElemAnn, ElemNoAcc>>),
     Doc("array", <<ElemLegacy, NonRecord("number")>>),
     Doc("array", <<ElemLegacy, ElemListName>>),
     Doc("array", Bulk(BulkLen)), Doc("array", Bulk(BulkLen + 2))}

\* the leaderboard files a game can find at start-up
InitFiles ==
    {Doc("absent", <<>>), Doc("invalid", <<>>), Doc("array", <<ElemAnn, ElemLegacy>>),
     Doc("object", Bulk(BulkLen)), Doc("object", TopNine)}

\* str.lower() on the names of the model
NameLower(n) == IF n = "BOB" THEN "bob" ELSE n

\* the list import_scores builds from the validated records
ImportList(s, valid, merge) ==
    IF merge THEN Trim(SortDesc(Dedup(s \o valid))) ELSE valid

\* the list a merging import_scores leaves when its seen-set loop raises:
\* self.scores was extended in place and not assigned again
ImportAborted(s, valid) == s \o valid

\* remove_user_scores: the exception it lets out; lower() on a name that is a
\* list is an AttributeError
RemoveRaises(s) ==
    IF \E i \in 1..Len(s) : s[i].name = ListName THEN "AttributeError" ELSE "none"

\* remove_user_scores: the records that stay
RemoveUser(s, name) == SelectSeq(s, LAMBDA r : NameLower(r.name) # NameLower(name))

\* a call of the driver on a constructed LeaderboardManager
Op == /\ last \notin {"new", "crashed"}
      /\ budget.ops < MaxOps
      /\ budget' = [budget EXCEPT !.ops = @ + 1]
      /\ UNCHANGED <<carVars, gameVars, setVars, now>>

\* the records the driver hands to add_score at time t
AddInputs(t) ==
    {ScoreEntry(name, sc, <<40, 1>>, <<95, 1>>, "normal", t) : name \in {"ann", ""}, sc \in {1, 8}}

\* LeaderboardManager.add_score
LbAdd ==
    /\ Op
    /\ \E entry \in AddInputs(now) :
         /\ scores' = AddScoreList(scores, entry)
         /\ returned' = PyBool(AddScoreReturn(scores, entry))
    /\ lbfile' \in SaveOutcomes(scores', lbfile)
    /\ raised' = SaveRaised(scores', lbfile')
    /\ last' = "add"

\* LeaderboardManager.import_scores
LbImport ==
    /\ Op
    /\ \E doc \in ImportDocs, merge \in BOOLEAN :
         IF doc.t # "array" \/ ValidateRaises(doc.items) = "TypeError"
         THEN /\ last' = "import_false"
              /\ returned' = PyBool(FALSE)
              /\ raised' = "none"
              /\ UNCHANGED lbVars
         ELSE IF merge /\ DedupRaises(scores \o ValidateScores(doc.items, now)) = "TypeError"
         THEN /\ scores' = ImportAborted(scores, ValidateScores(doc.items, now))
              /\ last' = "import_false"
              /\ returned' = PyBool(FALSE)
              /\ raised' = "none"
              /\ UNCHANGED lbfile
         ELSE /\ scores' = ImportList(scores, ValidateScores(doc.items, now), merge)
              /\ lbfile' \in SaveOutcomes(scores', lbfile)
              /\ returned' = PyBool(TRUE)
              /\ raised' = SaveRaised(scores', lbfile')
              /\ last' = IF merge THEN "import_merge" ELSE "import_replace"

\* LeaderboardManager.remove_user_scores
LbRemove ==
    /\ Op
    /\ IF RemoveRaises(scores) = "none"
       THEN /\ \E name \in {"ann", "BOB"} : scores' = RemoveUser(scores, name)
            /\ lbfile' \in SaveOutcomes(scores', lbfile)
            /\ raised' = SaveRaised(scores', lbfile')
       ELSE /\ raised' = RemoveRaises(scores)
            /\ UNCHANGED lbVars
    /\ returned' = PyNone
    /\ last' = "remove"

\* LeaderboardManager.clear_scores
LbClear ==
    /\ Op
    /\ scores' = <<>>
    /\ lbfile' \in SaveOutcomes(scores', lbfile)
    /\ returned' = PyNone
    /\ raised' = SaveRaised(scores', lbfile')
    /\ last' = "clear"

\* the files LeaderboardManager.__init__ can find
LoadFiles ==
    {Doc("absent", <<>>), Doc("invalid", <<>>), Doc("scalar", <<>>),
     Doc("object_other", <<>>),
     Doc("array", <<ElemAnn, ElemLegacy>>), Doc("object", <<ElemLegacy, ElemNoAcc, ElemAnn>>),
     Doc("array", <<ElemBoth, ElemNoName>>),
     Doc("array", <<NonRecord("string"), ElemAnn, NonRecord("array")>>),
     Doc("array", <<ElemLegacy, NonRecord("number"), ElemAnn>>),
     Doc("object", <<NonRecord("null")>>)}

\* LeaderboardManager.__init__: load_scores on the file found
LbConstruct ==
    /\ last = "new"
    /\ scores' = LoadScoresList(lbfile, now)
    /\ returned' = PyNone
    /\ raised' = LoadScoresRaised(lbfile)
    /\ last' = IF raised' = "none" THEN "init" ELSE "crashed"
    /\ UNCHANGED <<carVars, gameVars, setVars, lbfile, now, budget>>

\* LeaderboardManager.load_scores
LbLoad ==
    /\ Op
    /\ scores' = LoadScoresList(lbfile, now)
    /\ lbfile' = lbfile
    /\ returned' = PyNone
    /\ raised' = LoadScoresRaised(lbfile)
    /\ last' = "load"

----------------------------------------------------------------------------
(* Settings store driven on its own                                        *)

\* the number of calls the driver makes on a SettingsManager
MaxSettingsOps == 3

\* trees a settings file or an import string can hold: a category of the
\* schema, a category and a key the defaults do not know, a category whose
\* value is a number
TreeHard    == [c \in {"gameplay"} |-> DictOf([k \in {"difficulty"} |-> Leaf("hard")])]
TreeUnknown == [c \in {"audio", "extra"} |->
                   IF c = "audio" THEN DictOf([k \in {"theme"} |-> Leaf("dark")])
                   ELSE DictOf([k \in {"k"} |-> Leaf("v")])]
TreeScalar  == [c \in {"audio"} |-> Leaf("5")]

\* the settings files SettingsManager.__init__ can find
SettingsFiles ==
    {SettingsDoc("absent", EmptyTree), SettingsDoc("invalid", EmptyTree),
     SettingsDoc("other", EmptyTree), SettingsDoc("object", TreeHard),
     SettingsDoc("object", TreeUnknown), SettingsDoc("object", TreeScalar)}

\* the JSON strings the driver hands to import_settings
SettingsImports ==
    {SettingsDoc("invalid", EmptyTree), SettingsDoc("other", EmptyTree),
     SettingsDoc("object", TreeHard), SettingsDoc("object", TreeScalar)}

\* the arguments of the driver's set and get calls
SetCategories == {"audio", "extra"}
SetKeys       == {"mute", "k"}
SetValues     == {Leaf("True")}
GetDefault    == Leaf("fallback")

\* a call of the driver on a constructed SettingsManager
SmOp ==
    /\ last \notin {"new", "crashed"}
    /\ budget.ops < MaxSettingsOps
    /\ budget' = [budget EXCEPT !.ops = @ + 1]
    /\ UNCHANGED <<carVars, gameVars, lbVars, now>>

\* SettingsManager.load_settings
LoadSettings ==
    /\ raised' = LoadSettingsRaised(settings_file)
    /\ returned' = PyNone
    /\ current_settings' = LoadSettingsTree(settings_file, default_settings, current_settings)
    /\ aliased' = CASE settings_file.t = "object" ->
                          MergeAliased(default_settings, settings_file.tree)
                     [] settings_file.t = "other" -> aliased
                     [] OTHER -> {c \in DOMAIN default_settings : IsDict(default_settings[c])}
    /\ was_set' = IF settings_file.t = "other" THEN was_set ELSE {}
    /\ settings_file' \in IF settings_file.t = "absent"
                           THEN SaveSettingsOutcomes(current_settings', settings_file)
                           ELSE {settings_file}
    /\ UNCHANGED default_settings

\* SettingsManager.__init__: load_settings on the file found
SmConstruct ==
    /\ last = "new"
    /\ LoadSettings
    /\ last' = IF raised' = "none" THEN "init" ELSE "crashed"
    /\ UNCHANGED <<carVars, gameVars, lbVars, now, budget>>

\* SettingsManager.load_settings called again
SmLoad ==
    /\ SmOp
    /\ LoadSettings
    /\ last' = "load_settings"

\* SettingsManager.save_settings
SmSave ==
    /\ SmOp
    /\ settings_file' \in SaveSettingsOutcomes(current_settings, settings_file)
    /\ returned' = PyNone
    /\ raised' = "none"
    /\ last' = "save_settings"
    /\ UNCHANGED <<current_settings, default_settings, aliased, was_set>>

\* SettingsManager.set(category, key, value)
SmSet ==
    /\ SmOp
    /\ \E c \in SetCategories, k \in SetKeys, v \in SetValues :
         /\ raised' = SetRaised(current_settings, c)
         /\ IF raised' = "none"
            THEN /\ current_settings' = SetValue(current_settings, c, k, v)
                 /\ default_settings' = IF c \in aliased
                                         THEN SetValue(default_settings, c, k, v)
                                         ELSE default_settings
                 /\ was_set' = {t \in was_set : <<t[1], t[2]>> # <<c, k>>}
                                  \cup {<<c, k, v>>}
            ELSE UNCHANGED <<current_settings, default_settings, was_set>>
    /\ returned' = PyNone
    /\ last' = "set"
    /\ UNCHANGED <<aliased, settings_file>>

\* SettingsManager.get(category, key, default)
SmGet ==
    /\ SmOp
    /\ \E c \in SetCategories \cup {"gameplay"}, k \in SetKeys :
         /\ raised' = GetRaised(current_settings, c)
         /\ returned' = IF raised' = "none"
                         THEN GetValue(current_settings, c, k, GetDefault) ELSE PyNone
    /\ last' = "get"
    /\ UNCHANGED setVars

\* SettingsManager.import_settings(json_string): JSONDecodeError and TypeError
\* are caught, the AttributeError of _merge_settings on a list or scalar is not
SmImport ==
    /\ SmOp
    /\ \E doc \in SettingsImports :
         CASE doc.t = "invalid" ->
                /\ returned' = PyBool(FALSE)
                /\ raised' = "none"
                /\ UNCHANGED setVars
           [] doc.t = "other" ->
                /\ returned' = PyNone
                /\ raised' = "AttributeError"
                /\ UNCHANGED setVars
           [] OTHER ->
                /\ current_settings' = MergeSettings(default_settings, doc.tree)
                /\ aliased' = MergeAliased(default_settings, doc.tree)
                /\ was_set' = {}
                /\ settings_file' \in SaveSettingsOutcomes(current_settings', settings_file)
                /\ returned' = PyBool(TRUE)
                /\ raised' = "none"
                /\ UNCHANGED default_settings
    /\ last' = "import_settings"

\* SettingsManager.reset_all
SmResetAll ==
    /\ SmOp
    /\ current_settings' = default_settings
    /\ aliased' = {c \in DOMAIN default_settings : IsDict(default_settings[c])}
    /\ was_set' = {}
    /\ returned' = PyNone
    /\ raised' = "none"
    /\ last' = "reset_all"
    /\ UNCHANGED <<default_settings, settings_file>>

\* SettingsManager.reset_category(category)
SmResetCategory ==
    /\ SmOp
    /\ \E c \in SetCategories :
         IF c \in DOMAIN default_settings
         THEN /\ current_settings' = Bind(current_settings, c, default_settings[c])
              /\ aliased' = aliased \ {c}
              /\ was_set' = {t \in was_set : t[1] # c}
         ELSE UNCHANGED <<current_settings, aliased, was_set>>
    /\ returned' = PyNone
    /\ raised' = "none"
    /\ last' = "reset_category"
    /\ UNCHANGED <<default_settings, settings_file>>

----------------------------------------------------------------------------
(* Specifications                                                          *)

\* TypingRacerGame.__init__: the fields of the game and of its Car
InitFields ==
    /\ position = CarReset.position
    /\ boost_timer = CarReset.boost_timer
    /\ penalty_timer = CarReset.penalty_timer
    /\ state = "MENU"
    /\ running = TRUE
    /\ pc = "loop"
    /\ current_word = <<>>
    /\ typed_text = <<>>
    /\ wpm = <<0, 1>>
    /\ accuracy = <<100, 1>>
    /\ score = 0
    /\ combo = 0
    /\ start_time = 0
    /\ game_time_limit = 60
    /\ chars_typed = 0
    /\ chars_correct = 0
    /\ words_completed = 0
    /\ difficulty = "normal"
    /\ max_word_length = 6
    /\ now = 0
    /\ returned = PyNone
    /\ raised = "none"
    /\ budget = [ops |-> 0, rounds |-> 0, bksp |-> 0, ended |-> 0, added |-> 0]

\* SettingsManager.__init__ done where no settings file existed: load_settings
\* has copied the defaults and written them
InitSettingsDone ==
    /\ default_settings = CanonicalDefaults
    /\ current_settings = CanonicalDefaults
    /\ aliased = DOMAIN CanonicalDefaults
    /\ was_set = {}
    /\ settings_file = SavedSettings(CanonicalDefaults)

\* TypingRacerGame.__init__, with LeaderboardManager.__init__ loading the file
Init ==
    /\ InitFields
    /\ InitSettingsDone
    /\ lbfile \in InitFiles
    /\ scores = LoadScoresList(lbfile, now)
    /\ last = "init"

\* the game in the hands of a player who plays a round through
InitGame == Init /\ lbfile.t = "absent"
Next == PlayKey \/ Update \/ Tick
Spec == InitGame /\ [][Next]_vars

\* the game with every screen: pausing, leaving a round, the other screens and
\* the window being closed
NextScreens == HandleKey \/ HandleQuit \/ Update \/ Tick
SpecScreens == InitGame /\ [][NextScreens]_vars

\* a Car object on its own
NextCar == CarMove \/ CarBoost \/ CarPenalty \/ CarUpdate \/ CarResetCall
SpecCar == InitGame /\ [][NextCar]_vars

\* a LeaderboardManager on its own
NextLB == LbAdd \/ LbImport \/ LbRemove \/ LbClear \/ LbLoad \/ Tick
SpecLB == Init /\ [][NextLB]_vars

\* a SettingsManager from its construction on, over the files it can find:
\* __init__ has built default_settings, set current_settings = {} and is about
\* to call load_settings
InitSettings ==
    /\ InitFields
    /\ lbfile = Doc("absent", <<>>)
    /\ scores = <<>>
    /\ default_settings = CanonicalDefaults
    /\ current_settings = EmptyTree
    /\ aliased = {}
    /\ was_set = {}
    /\ settings_file \in SettingsFiles
    /\ last = "new"
NextSettings ==
    SmConstruct \/ SmLoad \/ SmSave \/ SmSet \/ SmGet \/ SmImport \/ SmResetAll
      \/ SmResetCategory
SpecSettings == InitSettings /\ [][NextSettings]_vars

\* a LeaderboardManager from its construction on, over the files it can find:
\* __init__ has set scores = [] and is about to call load_scores
\* Rounds of every difficulty: start_game(difficulty) called with each of
\* the four, a player who types the words without a mistake and confirms
\* the game-over screen, and a clock that passes every time limit
RoundClock == <<0, 45, 60, 75, 1000000>>

\* time.time() gives a later reading; the clock of these rounds starts with
\* the round
TickRound ==
    /\ state # "MENU"
    /\ \E i \in 1..(Len(RoundClock) - 1) : now = RoundClock[i] /\ now' = RoundClock[i + 1]
    /\ UNCHANGED <<carVars, gameVars, lbVars, restVars, budget, last>>

\* start_game(difficulty)
RoundStart ==
    /\ pc = "loop"
    /\ state = "MENU"
    /\ budget.rounds < MaxRounds
    /\ \E d \in Difficulties : StartGame(d)

\* handle_events: a KEYDOWN event of the player of these rounds
RoundKey ==
    /\ pc = "loop"
    /\ \E e \in KeyEvents :
         /\ \/ state = "PLAYING" /\ IsCharEvent(e) /\ Matches(e)
            \/ state = "GAME_OVER" /\ e.key \in {"K_RETURN", "K_SPACE"}
         /\ KeyDown(e)

NextRounds == RoundStart \/ RoundKey \/ Update \/ TickRound
SpecRounds == InitGame /\ [][NextRounds]_vars

\* The word source alone: set_difficulty with any limit, get_next_word
MaxWordOps == 4
MaxLimit == 10

WmOp ==
    /\ budget.ops < MaxWordOps
    /\ budget' = [budget EXCEPT !.ops = @ + 1]
    /\ raised' = "none"
    /\ UNCHANGED <<carVars, state, running, pc, current_word, typed_text, wpm, accuracy,
                   score, combo, start_time, game_time_limit, chars_typed, chars_correct,
                   words_completed, difficulty, lbVars, setVars, now>>

\* WordManager.set_difficulty(speed_multiplier, max_length, spawn_rate)
WmSetDifficulty ==
    /\ WmOp
    /\ \E max_length \in 0..MaxLimit : max_word_length' = max_length
    /\ returned' = PyNone
    /\ last' = "set_difficulty"

\* WordManager.get_next_word()
WmGetNextWord ==
    /\ WmOp
    /\ \E w \in ValidWords(max_word_length) : returned' = Leaf(w)
    /\ last' = "get_next_word"
    /\ UNCHANGED max_word_length

InitWords ==
    /\ InitFields
    /\ InitSettingsDone
    /\ lbfile = Doc("absent", <<>>)
    /\ scores = <<>>
    /\ last = "init"
NextWords == WmSetDifficulty \/ WmGetNextWord
SpecWords == InitWords /\ [][NextWords]_vars

InitLoad ==
    /\ InitFields
    /\ InitSettingsDone
    /\ lbfile \in LoadFiles
    /\ scores = <<>>
    /\ last = "new"
NextLoad == LbConstruct \/ LbAdd \/ LbImport \/ LbRemove \/ LbClear \/ LbLoad
SpecLoad == InitLoad /\ [][NextLoad]_vars

----------------------------------------------------------------------------
(* Steps the claims speak about                                            *)

Range(s) == {s[i] : i \in 1..Len(s)}
SeqBag(s) == [x \in Range(s) |-> Cardinality({i \in 1..Len(s) : s[i] = x})]
InRound == state \in {"PLAYING", "PAUSED"}

\* typed is a case-insensitive prefix of word
IsPrefixCI(typed, word) ==
    /\ Len(typed) <= Len(word)
    /\ \A i \in 1..Len(typed) : Lower(typed[i]) = Lower(word[i])

\* a step in which handle_game_input handles a character that does not match
MismatchStep ==
    /\ state = "PLAYING"
    /\ \E e \in KeyEvents : IsCharEvent(e) /\ ~Matches(e) /\ KeyDown(e)

\* a step in which handle_game_input handles a matching character
CorrectStep ==
    /\ state = "PLAYING"
    /\ \E e \in KeyEvents : IsCharEvent(e) /\ Matches(e) /\ KeyDown(e)

\* a step in which the matching character is the last one of the word
CompletionStep == CorrectStep /\ Len(typed_text) + 1 = Len(current_word)

----------------------------------------------------------------------------
(* C1: during a round typed_text is a case-insensitive prefix of           *)
(* current_word, no longer than it, and a character that does not match    *)
(* leaves typed_text as it was.                                            *)
C1_TypedIsPrefix ==
    /\ [](InRound => IsPrefixCI(typed_text, current_word))
    /\ [][MismatchStep => typed_text' = typed_text]_vars

\* a round in which a proper prefix is typed after a mistake and a backspace
C1_Witness ==
    /\ state = "PLAYING"
    /\ typed_text # <<>>
    /\ Len(typed_text) < Len(current_word)
    /\ chars_typed > chars_correct
    /\ budget.bksp > 0

(* C2: the progress of a Car stays within 0.0 .. 1.0, has_finished() is    *)
(* true exactly in the states of progress 1.0 and above, and no call but   *)
(* reset() makes progress smaller.                                         *)
C2_ProgressBounded ==
    /\ [](position \in 0..One /\ (HasFinished(position) <=> position >= One))
    /\ [][last' # "reset" => position' >= position]_vars

\* a Car at the finish line after a penalty and a frame update
C2_Witness == position = One /\ last = "car_update" /\ penalty_timer > 0

(* C3: a character that does not match leaves combo at 0.                  *)
C3_MismatchResetsCombo == [][MismatchStep => combo' = 0]_vars

(* C4: after every mutating leaderboard operation the stored list is       *)
(* sorted by score in descending order and holds at most 100 entries.      *)
C4_SortedAndCapped ==
    /\ \A i \in 1..(Len(scores) - 1) : scores[i].score >= scores[i + 1].score
    /\ Len(scores) <= 100

(* C5: a correctly typed character of a word of length L advances progress *)
(* by 0.02 / L (before the completion boost and the clamp at 1.0).         *)
C5_FlatCharIncrement ==
    [][(CorrectStep /\ ~CompletionStep /\ position' < One)
         => position' - position = (One \div 50) \div Len(current_word)]_vars

(* C6: completing a word of length L at combo C adds L*10 + min((C+1)*5,   *)
(* 100) to score, makes combo C+1 and adds 1 to words_completed.           *)
C6_CompletionScore ==
    [][CompletionStep =>
         /\ score' = score + Len(current_word) * 10
                       + (IF (combo + 1) * 5 <= 100 THEN (combo + 1) * 5 ELSE 100)
         /\ combo' = combo + 1
         /\ words_completed' = words_completed + 1]_vars

\* a round in which a second word was completed at combo 1
C6_Witness == state = "PLAYING" /\ combo = 2 /\ words_completed = 2 /\ score >= 75

(* C7: no state has a round in PLAYING with progress at 1.0 or above.      *)
C7_FinishEndsRound == state = "PLAYING" => position < One

(* C8: the character that types the word out completes it in the same      *)
(* step: below 1.0 (after the boost) the round goes on in PLAYING with a   *)
(* new non-empty word and an empty typed_text, at 1.0 the state is         *)
(* GAME_OVER and the word stays; so a round in PLAYING never shows a word  *)
(* typed out.                                                              *)
C8_CompletionInSameStep ==
    /\ [][CompletionStep =>
            IF position' < One
            THEN /\ state' = "PLAYING"
                 /\ typed_text' = <<>>
                 /\ current_word' # <<>>
                 /\ words_completed' = words_completed + 1
            ELSE /\ state' = "GAME_OVER"
                 /\ current_word' = current_word
                 /\ words_completed' = words_completed + 1]_vars
    /\ [](state = "PLAYING" => Len(typed_text) < Len(current_word))

\* a round won by the last character of a word
C8_Witness ==
    /\ state = "GAME_OVER"
    /\ position = One
    /\ typed_text = current_word
    /\ words_completed > 0

(* C9 as stated: every round that has ended has its ScoreRecord, so a game *)
(* that is told to stop has added one record for each ended round.         *)
C9_EveryEndedRoundRecorded == ~running => budget.added = budget.ended

\* the step that leaves the game-over screen
LeavesGameOver == state = "GAME_OVER" /\ state' # "GAME_OVER"

(* C9 as amended: a round that has ended is summarized into exactly one    *)
(* ScoreRecord when the player leaves the game-over screen with RETURN or  *)
(* SPACE, the only way out of it, and the record carries the final score;  *)
(* until then the ended round has no record; no record is added for a      *)
(* round that has not ended and none is added twice.                       *)
C9_RecordOnLeavingGameOver ==
    /\ [](budget.ended = budget.added + (IF state = "GAME_OVER" THEN 1 ELSE 0))
    /\ [][LeavesGameOver =>
            /\ state' = "MENU"
            /\ budget'.added = budget.added + 1
            /\ Len(scores') = Min(Len(scores) + 1, 100)
            /\ \E i \in 1..Len(scores') :
                 /\ scores'[i].score = score
                 /\ scores'[i].name = "Player"
                 /\ SeqBag(scores') = SeqBag(scores) (+) SetToBag({scores'[i]})]_vars
    /\ [][(Len(scores') > Len(scores) \/ budget'.added # budget.added)
            => LeavesGameOver]_vars

\* a won round whose record, with the final score, is on the leaderboard
C9_Witness ==
    /\ state = "MENU"
    /\ budget.ended = 1
    /\ budget.added = 1
    /\ position = One
    /\ score > 0
    /\ Len(scores) = 1
    /\ scores[1].score = score

\* the add_score step of the store's driver
AddStep == budget'.ops = budget.ops + 1 /\ last' = "add"

(* C10: add_score on a leaderboard of 100 records leaves 100 records, and  *)
(* the one record of the 101 candidates that is not kept has the minimum   *)
(* score among them.                                                       *)
C10_EvictsLowest ==
    [][(AddStep /\ Len(scores) = 100) =>
         /\ Len(scores') = 100
         /\ LET before == SeqBag(scores)
                after  == SeqBag(scores')
            IN \E entry \in AddInputs(now) :
                 LET candidates == before (+) SetToBag({entry})
                     dropped    == candidates (-) after
                 IN /\ after \sqsubseteq candidates
                    /\ BagCardinality(dropped) = 1
                    /\ \A d \in BagToSet(dropped) :
                         \A r \in BagToSet(candidates) : d.score <= r.score]_vars

\* a full leaderboard from which add_score has evicted a record of the file
C10_Witness ==
    /\ last = "add"
    /\ Len(scores) = 100
    /\ Cardinality({i \in 1..Len(scores) : scores[i].name = "bulk"}) = 98
    /\ scores[1].score = 8

\* the place add_score gives the new record: list.sort is stable and the record
\* was appended, so it follows every record that scores at least as high
Rank(s, entry) == Cardinality({i \in 1..Len(s) : s[i].score >= entry.score}) + 1

(* C11: add_score returns True exactly when the record it created is one of *)
(* the first 10 records of the stored list after insertion, sorting and    *)
(* trimming, and False otherwise.                                          *)
C11_ReturnsTopTen ==
    [][AddStep =>
         \A entry \in AddInputs(now) :
            scores' = AddScoreList(scores, entry)
              => returned' = PyBool(Rank(scores, entry) <= 10)]_vars

C13_LoadNeverRaises ==
    last \in {"init", "crashed", "load"} =>
        /\ raised = "none"
        /\ \A i \in 1..Len(scores) :
              IsRecord(scores[i]) /\ RequiredFields \subseteq DOMAIN scores[i]

\* the import_scores(merge = True) step that returns True
ImportMergeStep ==
    budget'.ops = budget.ops + 1 /\ last' = "import_merge" /\ returned' = PyBool(TRUE)

(* C18: after import_scores with merge = True has returned True no two      *)
(* stored records have the same (name, score, wpm, timestamp).             *)
C18_MergeLeavesNoRepeats ==
    [][ImportMergeStep =>
         \A i, j \in 1..Len(scores') :
            i # j => <<scores'[i].name, scores'[i].score, scores'[i].wpm, scores'[i].timestamp>>
                       # <<scores'[j].name, scores'[j].score, scores'[j].wpm,
                           scores'[j].timestamp>>]_vars

\* an import into an empty leaderboard of a list that repeats a record
C18_Witness ==
    /\ last = "import_merge"
    /\ budget.ops = 1
    /\ Len(scores) = 1
    /\ scores[1].name = "ann"

\* a dict the validation is to keep: name, score, accuracy and one of wpm, wmp
Acceptable(d) ==
    /\ IsRecord(d)
    /\ {"name", "score", "accuracy"} \subseteq DOMAIN d
    /\ "wpm" \in DOMAIN d \/ "wmp" \in DOMAIN d

\* the list kept is what the validation is to make of the items read
KeptFrom(kept, items) ==
    /\ \A j \in 1..Len(kept) :
          {"name", "score", "wpm", "accuracy"} \subseteq DOMAIN kept[j]
    /\ Len(kept) = Cardinality({i \in 1..Len(items) : Acceptable(items[i])})
    /\ \A i \in 1..Len(items) :
          Acceptable(items[i]) =>
             \E j \in 1..Len(kept) :
                /\ kept[j].name = items[i].name
                /\ kept[j].score = items[i].score
                /\ kept[j].accuracy = items[i].accuracy
                /\ kept[j].wpm = IF "wpm" \in DOMAIN items[i]
                                 THEN items[i].wpm ELSE items[i].wmp
                /\ "wpm" \notin DOMAIN items[i] => "wmp" \notin DOMAIN kept[j]

LoadSettingsStep ==
    \/ last = "new" /\ last' \in {"init", "crashed"}
    \/ budget'.ops = budget.ops + 1 /\ last' = "load_settings"

(* C14: load_settings lets no exception out; without a file it leaves the  *)
(* default tree and writes it to the file, and on content that is no JSON  *)
(* or JSON of the wrong shape it leaves the default tree.                  *)
C14_LoadSettingsNeverFails ==
    [][LoadSettingsStep =>
         /\ raised' = "none"
         /\ settings_file.t # "object" => current_settings' = default_settings
         /\ settings_file.t = "absent" =>
               settings_file' \in SaveSettingsOutcomes(default_settings, settings_file)]_vars

\* a step that is a call of get
GetStep == budget'.ops = budget.ops + 1 /\ last' = "get"

(* C15: get(category, key, default) lets no exception out, and returns the  *)
(* value stored under the key or, when the category or the key is not      *)
(* there as a usable entry, the default of the caller.                     *)
C15_GetNeverRaises ==
    [][GetStep =>
         /\ raised' = "none"
         /\ \E c \in SetCategories \cup {"gameplay"}, k \in SetKeys :
               returned' = IF /\ c \in DOMAIN current_settings
                              /\ IsDict(current_settings[c])
                              /\ k \in DOMAIN current_settings[c].dict
                           THEN current_settings[c].dict[k] ELSE GetDefault]_vars

RECURSIVE PathsOf(_)
PathsOf(f) ==
    {<<k>> : k \in DOMAIN f}
      \cup UNION {{<<k>> \o q : q \in PathsOf(f[k].dict)} :
                    k \in {x \in DOMAIN f : IsDict(f[x])}}
RECURSIVE ValueAt(_, _)
ValueAt(f, path) ==
    IF Len(path) = 1 THEN f[path[1]] ELSE ValueAt(f[path[1]].dict, Tail(path))

\* result is the deep union of defaults and loaded
DeepUnion(result, defaults, loaded) ==
    /\ (PathsOf(defaults) \cup PathsOf(loaded)) \subseteq PathsOf(result)
    /\ \A q \in PathsOf(loaded) :
          ~IsDict(ValueAt(loaded, q)) => ValueAt(result, q) = ValueAt(loaded, q)
    /\ \A q \in PathsOf(defaults) \ PathsOf(loaded) :
          ~IsDict(ValueAt(defaults, q)) => ValueAt(result, q) = ValueAt(defaults, q)

(* C17: the tree load_settings builds with _merge_settings from a file that *)
(* holds a mapping is the deep union of the defaults and the loaded tree:  *)
(* every key path of either is in it, a leaf of the loaded tree has the    *)
(* loaded value, a leaf of the defaults alone has the default value.       *)
C17_MergeIsDeepUnion ==
    [][(LoadSettingsStep /\ settings_file.t = "object")
         => DeepUnion(current_settings', default_settings, settings_file.tree)]_vars

\* the words of a list, and the words of the three static lists
WordsOf(list) == {list[i] : i \in 1..Len(list)}
StaticWords == WordsOf(easy_words) \cup WordsOf(normal_words) \cup WordsOf(hard_words)

(* C20: the word get_next_word returns is not empty and is one of the      *)
(* static lists; when the pool chosen for the limit has a word no longer   *)
(* than max_word_length, the word is of the pool and no longer than the    *)
(* limit; when the pool has none, the word is of the easy tier.            *)
C20_NextWordFromLists ==
    last = "get_next_word" =>
        LET w    == returned.leaf
            pool == WordsOf(GetWordList(max_word_length))
        IN /\ Len(w) > 0
           /\ w \in StaticWords
           /\ IF \E v \in pool : Len(v) <= max_word_length
                 THEN w \in pool /\ Len(w) <= max_word_length
                 ELSE w \in WordsOf(easy_words)

\* the fall-back: a word of the easy tier longer than the limit
C20_Witness ==
    /\ last = "get_next_word"
    /\ max_word_length < 2
    /\ Len(returned.leaf) > max_word_length

\* a call of update(dt) in a round that is being played
UpdateInRound == state = "PLAYING" /\ Update

(* C21: every update during a round leaves the accuracy at 100.0 when no   *)
(* character was typed and at 100 * chars_correct / chars_typed otherwise, *)
(* computed from the counters as they are at the update.                   *)
C21_AccuracyFromCounters ==
    [][UpdateInRound =>
         accuracy' = IF chars_typed = 0 THEN <<100, 1>>
                     ELSE Frac(100 * chars_correct, chars_typed)]_vars

\* what holds of update: the accuracy follows the counters when time has passed
\* since the start of the round
AccuracyFromCountersAfterStart ==
    [][(UpdateInRound /\ now - start_time > 0) =>
         accuracy' = IF chars_typed = 0 THEN <<100, 1>>
                     ELSE Frac(100 * chars_correct, chars_typed)]_vars

\* a step in which handle_game_input handles a backspace
BackspaceStep ==
    /\ state = "PLAYING"
    /\ \E e \in KeyEvents : e.key = "K_BACKSPACE" /\ KeyDown(e)

(* C22: a backspace during a round removes the last character of           *)
(* typed_text, or nothing when typed_text is empty, and leaves progress,   *)
(* score, combo, chars_typed, chars_correct, words_completed and           *)
(* current_word as they were.                                              *)
C22_BackspaceFrame ==
    [][BackspaceStep =>
         /\ typed_text' = IF typed_text = <<>> THEN <<>>
                          ELSE SubSeq(typed_text, 1, Len(typed_text) - 1)
         /\ UNCHANGED <<position, score, combo, chars_typed, chars_correct,
                        words_completed, current_word>>]_vars

\* a round in which the one correctly typed character was deleted
C22_Witness ==
    /\ state = "PLAYING"
    /\ budget.bksp = 1
    /\ typed_text = <<>>
    /\ words_completed = 0
    /\ chars_correct = 1
    /\ position > 0

(* C23: apply_penalty() and update(dt) leave progress as it is for every   *)
(* dt; progress changes only in move_by_progress, apply_boost and reset;   *)
(* apply_boost adds exactly 0.05, clamped at 1.0; so progress reaches 1.0  *)
(* by calls alone, with no time elapsed.                                   *)
C23_PenaltyAndUpdateKeepProgress ==
    /\ [][last' \in {"penalty", "car_update"} => position' = position]_vars
    /\ [][position' # position => last' \in {"move", "boost", "reset"}]_vars
    /\ [][last' = "boost" =>
            position' = (IF position + One \div 20 <= One
                         THEN position + One \div 20 ELSE One)]_vars

\* a Car brought to the finish line by a boost with the clock still at the
\* start and the timer of a penalty not run down by any frame
C23_Witness ==
    /\ position = One
    /\ last = "boost"
    /\ penalty_timer = 500
    /\ boost_timer = 1000
    /\ now = 0

(* C24: in a round of difficulty easy, normal or hard, an update in        *)
(* PLAYING at which the elapsed time has reached the time limit leaves the *)
(* state GAME_OVER, with combo 0 when the car has not finished; in an      *)
(* endless round an update in PLAYING leaves the state PLAYING.            *)
C24_TimeOutEndsRound ==
    [][UpdateInRound =>
         /\ (difficulty \in {"easy", "normal", "hard"}
               /\ now - start_time >= game_time_limit)
              => /\ state' = "GAME_OVER"
                 /\ ~HasFinished(position) => combo' = 0
         /\ difficulty = "endless" => state' = "PLAYING"]_vars

\* what holds of update: a round whose car has not finished ends at the
\* time limit, and an endless round never does
TimeOutEndsUnfinishedRound ==
    [][UpdateInRound =>
         /\ (difficulty \in {"easy", "normal", "hard"}
               /\ now - start_time >= game_time_limit /\ position < One)
              => state' = "GAME_OVER" /\ combo' = 0
         /\ (difficulty = "endless" \/ now - start_time < game_time_limit)
              => state' = "PLAYING"]_vars

\* the variables of a round
roundVars == <<current_word, typed_text, position, score, combo, chars_typed,
               chars_correct, words_completed>>

(* C25: a newly constructed game is in MENU with running true, and a step  *)
(* taken in a state other than PLAYING changes a round variable only when  *)
(* it is start_game, which leaves the menu for a fresh round: keys and     *)
(* update() in MENU, PAUSED, GAME_OVER, SETTINGS, LEADERBOARD and TUTORIAL *)
(* leave current_word, typed_text, progress, score, combo, chars_typed,    *)
(* chars_correct and words_completed unchanged.                            *)
C25_RoundFrozenOutsidePlaying ==
    /\ (state = "MENU" /\ running = TRUE)
    /\ [][(state # "PLAYING" /\ roundVars' # roundVars)
            => /\ state = "MENU"
               /\ state' = "PLAYING"
               /\ budget'.rounds = budget.rounds + 1
               /\ typed_text' = <<>>
               /\ position' = 0
               /\ score' = 0 /\ combo' = 0 /\ words_completed' = 0
               /\ chars_typed' = 0 /\ chars_correct' = 0]_vars

\* a round left half-way through the pause screen, seen from the leaderboard
\* screen with its word partly typed
C25_Witness ==
    /\ state = "LEADERBOARD"
    /\ typed_text # <<>>
    /\ position > 0
    /\ chars_correct > 0
    /\ pc = "loop"

\* update: remaining_time, as it would be computed at the present reading of
\* the clock
RemainingTime == Max(0, game_time_limit - (now - start_time))

\* the steps that pause a round and resume it
PauseStep ==
    /\ state = "PLAYING"
    /\ \E e \in KeyEvents : e.key = "K_ESCAPE" /\ KeyDown(e)
ResumeStep ==
    /\ state = "PAUSED"
    /\ \E e \in KeyEvents : e.key \in {"K_SPACE", "K_RETURN"} /\ KeyDown(e)

(* C26: ESC in PLAYING leaves the state PAUSED and SPACE or RETURN in      *)
(* PAUSED leaves it PLAYING, both with the round variables as they were;   *)
(* and while the state is PAUSED neither the round variables nor the       *)
(* remaining time of the round change, so that the round resumes with the  *)
(* remaining time it was paused with.                                      *)
C26_PausePreservesRound ==
    /\ [][PauseStep => state' = "PAUSED" /\ roundVars' = roundVars]_vars
    /\ [][ResumeStep => state' = "PLAYING" /\ roundVars' = roundVars]_vars
    /\ [][state = "PAUSED" =>
            roundVars' = roundVars /\ RemainingTime' = RemainingTime]_vars

\* what holds of pausing: the state changes as claimed and the round
\* variables are kept, whatever the clock does
PauseKeepsRoundVariables ==
    /\ [][PauseStep => state' = "PAUSED" /\ roundVars' = roundVars]_vars
    /\ [][ResumeStep => state' = "PLAYING" /\ roundVars' = roundVars]_vars
    /\ [][state = "PAUSED" => roundVars' = roundVars]_vars

\* the correct characters counted beyond those standing in typed_text
Credit == chars_correct - Len(typed_text)

\* a step within a round that is being played
PlayingStep == state = "PLAYING" /\ state' = "PLAYING"

(* C27 as stated: a character position earns credit once, so that within a *)
(* round chars_correct is the total length of the completed words plus     *)
(* len(typed_text): the count beyond typed_text grows by the length of a   *)
(* word when it is completed and by nothing else.                          *)
C27_CreditAtMostOnce ==
    [][PlayingStep =>
         Credit' - Credit = (IF words_completed' = words_completed + 1
                             THEN Len(current_word) ELSE 0)]_vars

(* C27 as amended: every correctly typed character earns credit, one typed *)
(* again after a backspace included: a matching character adds 1 to        *)
(* chars_correct and never lowers progress, and within a round             *)
(* chars_correct is the total length of the completed words plus           *)
(* len(typed_text) plus the number of characters deleted by backspace: the *)
(* count beyond typed_text grows by the length of a word when it is        *)
(* completed, by 1 when a backspace deletes a character, and by nothing    *)
(* else.                                                                   *)
C27_EveryCorrectKeystrokeCredited ==
    /\ [][CorrectStep => chars_correct' = chars_correct + 1 /\ position' >= position]_vars
    /\ [][(CorrectStep /\ ~CompletionStep) =>
            position' = (IF position + CharIncrement(Len(typed_text) + 1, Len(current_word)) <= One
                         THEN position + CharIncrement(Len(typed_text) + 1, Len(current_word))
                         ELSE One)]_vars
    /\ [][PlayingStep =>
            Credit' - Credit =
               (IF words_completed' = words_completed + 1 THEN Len(current_word)
                ELSE IF BackspaceStep /\ typed_text # <<>> THEN 1
                ELSE 0)]_vars

\* the first character of "cat" typed, deleted and typed again: counted twice
\* and the car moved twice
C27_Witness ==
    /\ state = "PLAYING"
    /\ words_completed = 0
    /\ budget.bksp = 1
    /\ current_word = <<"c", "a", "t">>
    /\ typed_text = <<"c">>
    /\ chars_correct = 2
    /\ chars_typed = 2
    /\ position = 2 * CharIncrement(1, 3)

\* the steps that are calls of reset_all and of reset_category
ResetAllStep == budget'.ops = budget.ops + 1 /\ last' = "reset_all"
ResetCategoryStep == budget'.ops = budget.ops + 1 /\ last' = "reset_category"

(* C28: set never alters the default tree, which stays the canonical one;  *)
(* so reset_all() leaves the canonical default tree as the current tree    *)
(* and reset_category(c) leaves category c with its canonical defaults.    *)
C28_DefaultsStayCanonical ==
    /\ [](default_settings = CanonicalDefaults)
    /\ [][ResetAllStep => current_settings' = CanonicalDefaults]_vars
    /\ [][ResetCategoryStep =>
            \E c \in SetCategories :
               current_settings' = IF c \in DOMAIN CanonicalDefaults
                                   THEN Bind(current_settings, c, CanonicalDefaults[c])
                                   ELSE current_settings]_vars

\* a call of import_scores that returns False
ImportFalseStep ==
    budget'.ops = budget.ops + 1 /\ last' = "import_false" /\ returned' = PyBool(FALSE)

(* C29: a call of import_scores that returns False leaves the stored list  *)
(* exactly as it was before the call and writes nothing to the file.       *)
C29_ImportAllOrNothing ==
    [][ImportFalseStep => scores' = scores /\ lbfile' = lbfile]_vars

\* what holds of import_scores: a call that returns False writes nothing, and
\* leaves the list as it was unless it was merging and a record that passed
\* validation had a key without a hash
ImportFalseWritesNothing ==
    [][ImportFalseStep =>
         /\ lbfile' = lbfile
         /\ scores' # scores => DedupRaises(scores') = "TypeError"]_vars

(* C30: the ScoreRecord added when the player leaves the game-over screen  *)
(* carries the difficulty the round was started with, whichever of easy,   *)
(* normal, hard and endless was passed to start_game.                      *)
C30_RecordCarriesDifficulty ==
    [][LeavesGameOver =>
         \E i \in 1..Len(scores') :
            /\ scores'[i].difficulty = difficulty
            /\ scores'[i].score = score
            /\ SeqBag(scores') = SeqBag(scores) (+) SetToBag({scores'[i]})]_vars

\* what holds of the record: it carries 'normal', the default of add_score,
\* whatever the difficulty of the round
RecordCarriesNormal ==
    [][LeavesGameOver =>
         \E i \in 1..Len(scores') :
            /\ scores'[i].difficulty = "normal"
            /\ scores'[i].score = score
            /\ SeqBag(scores') = SeqBag(scores) (+) SetToBag({scores'[i]})]_vars

====
